---- MODULE Spec2Model ----
(***************************************************************************)
(* Window-lifecycle and tray-badge coordinator of the CrewHub desktop     *)
(* shell (frontend/src-tauri/src/lib.rs).                                 *)
(*                                                                         *)
(* The event loop dispatches one event at a time; every action below is   *)
(* one whole handler.  The results of the toolkit calls that decide what  *)
(* a handler does or what the windows and the tray look like afterwards   *)
(* (build, show, hide, resource_dir, from_path, set_icon, set_tooltip)    *)
(* are inputs of the action, drawn with \E where the call is made.  The   *)
(* result of set_focus is discarded and changes nothing modelled here.    *)
(*                                                                         *)
(* ret and calls record what the last handler returned and which toolkit  *)
(* calls it made; builds, changedCalls, iconSwaps and anyErr count what   *)
(* has happened so far.  No handler reads them.                           *)
(***************************************************************************)
EXTENDS Integers, Sequences, FiniteSets, TLC

(* ------------------------------ bounds -------------------------------- *)

\* A count well above the last bucket boundary (the spec's setBadge(1000)).
BigCount == 1000

\* update_tray_badge calls whose count differs from the recorded count are
\* counted, and accepted, up to this many.
MaxChanged == 2

\* Cap of the per-label construction counter.
MaxBuilds == 2

(* ----------------------------- constants ------------------------------ *)

CHAT_WINDOW_LABEL == "chat"

WORLD_WINDOW_LABEL == "world"

SETTINGS_WINDOW_LABEL == "settings"

ZEN_WINDOW_LABEL == "zen-mode"

TRAY_ID == "main-tray"

\* The four labels the close handler compares against.
ManagedLabels ==
    {CHAT_WINDOW_LABEL, WORLD_WINDOW_LABEL, SETTINGS_WINDOW_LABEL, ZEN_WINDOW_LABEL}

\* Identifiers of the five menu items built by setup_tray.
MenuItemIds == {"chat", "world", "zen", "settings", "quit"}

\* Identifiers a menu event may carry: the five items, and two that no arm
\* of the match names (one of them the Zen window's label).
MenuEventIds == MenuItemIds \cup {"zen-mode", "about"}

\* The icon applied by setup_tray and restored for count = 0.
DEFAULT_ICON == "default_window_icon"

\* Values of the count argument explored: both sides of every bucket
\* boundary, and one large value.
Counts == {0, 1, 2, 3, BigCount}

\* Tray ids registered with the app once setup_tray has returned.
RegisteredTrays == {TRAY_ID}

\* setup_tray unwraps default_window_icon(), so it is present afterwards.
HasDefaultIcon == TRUE

VARIABLES
    windows,       \* label -> "Absent" | "Visible" | "Hidden"
    builds,        \* label -> number of successful WebviewWindowBuilder::build
    running,       \* FALSE once app.exit(0) has been called
    badge,         \* the u32 inside BadgeCount's mutex
    trayIcon,      \* icon resource currently applied to the tray
    trayTooltip,   \* tooltip currently applied to the tray
    ret,           \* what the last handler returned to its caller
    calls,         \* toolkit calls issued by the last handler, in order
    changedCalls,  \* update_tray_badge calls that passed the debounce
    iconSwaps,     \* successful tray.set_icon calls
    anyErr,        \* some update_tray_badge call has returned Err
    pc,            \* threaded host: invocation -> its position in the command
    countArg,      \* threaded host: invocation -> its count argument
    holder         \* threaded host: invocation holding BadgeCount's mutex, or 0

vars == <<windows, builds, running, badge, trayIcon, trayTooltip, ret, calls,
          changedCalls, iconSwaps, anyErr, pc, countArg,
          holder>>

mtVars == <<pc, countArg, holder>>

winVars == <<windows, builds>>

trayVars == <<badge, trayIcon, trayTooltip>>

countVars == <<changedCalls, iconSwaps, anyErr>>

\* Two invocations of update_tray_badge that a threaded host runs at once.
Invocations == {1, 2}

(* --------------------------- pure functions --------------------------- *)

Digit(d) == <<"0", "1", "2", "3", "4", "5", "6", "7", "8", "9">>[d + 1]

\* Display of a u32 by format!("{}"): its decimal digits, most significant first.
RECURSIVE Display(_)
Display(n) == IF n < 10 THEN <<Digit(n)>>
              ELSE Display(n \div 10) \o <<Digit(n % 10)>>

\* Mutant: the bucket boundary is off by one (3 still gets the "2" badge).
icon_name_late(count) ==
    CASE count = 1 -> "tray-badge-1.png"
      [] count \in {2, 3} -> "tray-badge-2.png"
      [] OTHER     -> "tray-badge-3plus.png"

\* The match on count that picks the badge icon file (count > 0).
icon_name(count) ==
    CASE count = 1 -> "tray-badge-1.png"
      [] count = 2 -> "tray-badge-2.png"
      [] OTHER     -> "tray-badge-3plus.png"

\* The icon update_tray_badge resolves for count.
icon_for(count) == IF count = 0 THEN DEFAULT_ICON ELSE icon_name(count)

\* The tooltip text update_tray_badge sets, as a sequence of pieces
\* ("--" stands for the em dash of the source).
tooltip_for(count) ==
    IF count = 0 THEN <<"CrewHub">>
    ELSE <<"CrewHub", " ", "--", " ">> \o Display(count) \o <<" ", "unread">>

\* One toolkit call in a handler's trace: the operation, its argument and
\* its result ("-" where the handler reads none or the call has none).
Call(op, arg, res) == <<op, arg, res>>

Res(ok) == IF ok THEN "Ok" ELSE "Err"

(* -------------------------------- Init -------------------------------- *)

\* The state when run() has finished setup: no window exists, the tray
\* carries the default icon and the tooltip "CrewHub", the badge count is 0.
Init ==
    /\ windows = [l \in ManagedLabels |-> "Absent"]
    /\ builds = [l \in ManagedLabels |-> 0]
    /\ running = TRUE
    /\ badge = 0
    /\ trayIcon = DEFAULT_ICON
    /\ trayTooltip = <<"CrewHub">>
    /\ ret = <<"()">>
    /\ calls = <<>>
    /\ changedCalls = 0
    /\ iconSwaps = 0
    /\ anyErr = FALSE
    /\ pc = [t \in Invocations |-> "idle"]
    /\ countArg = [t \in Invocations |-> 0]
    /\ holder = 0

(* --------------------------- window registry -------------------------- *)

\* Mutant: the lookup never finds the window.
get_webview_window_none(label) == FALSE

\* app.get_webview_window(label): Some iff a window with that label exists.
get_webview_window(label) == windows[label] # "Absent"

\* Mutant: only set_focus() is called, show() is forgotten.
show_and_focus_noshow(vis, showOk) == vis

\* Mutant: a failed show() hides the window.
show_and_focus_hide(vis, showOk) == IF showOk THEN "Visible" ELSE "Hidden"

\* Visibility of a window after show_and_focus: show() makes it visible,
\* a failed show() leaves it as it was; set_focus() changes no visibility.
\* Both results are discarded.
show_and_focus(vis, showOk) == IF showOk THEN "Visible" ELSE vis

\* Mutant: show()'s error is propagated, so set_focus() is skipped and the
\* failure is logged.
open_or_focus_try(label) ==
    LET after_show(showOk) ==
            IF showOk THEN <<Call("show", label, "Ok"),
                             Call("set_focus", label, "-")>>
            ELSE <<Call("show", label, "Err"), Call("eprintln", label, "-")>>
    IN
    IF get_webview_window(label)
    THEN \E showOk \in BOOLEAN :
         /\ windows' = [windows EXCEPT
                          ![label] = show_and_focus(windows[label], showOk)]
         /\ builds' = builds
         /\ calls' = <<Call("get_webview_window", label, "Some")>>
                     \o after_show(showOk)
    ELSE \E buildOk \in BOOLEAN :
         IF buildOk
         THEN \E showOk \in BOOLEAN :
              /\ builds[label] < MaxBuilds
              /\ windows' = [windows EXCEPT
                               ![label] = show_and_focus("Visible", showOk)]
              /\ builds' = [builds EXCEPT ![label] = @ + 1]
              /\ calls' = <<Call("get_webview_window", label, "None"),
                            Call("build", label, "Ok")>> \o after_show(showOk)
         ELSE /\ UNCHANGED winVars
              /\ calls' = <<Call("get_webview_window", label, "None"),
                            Call("build", label, "Err"),
                            Call("eprintln", label, "-")>>

\* Mutant: a failed build() is retried once on the spot.
open_or_focus_retry(label) ==
    IF get_webview_window(label)
    THEN \E showOk \in BOOLEAN :
         /\ windows' = [windows EXCEPT
                          ![label] = show_and_focus(windows[label], showOk)]
         /\ builds' = builds
         /\ calls' = <<Call("get_webview_window", label, "Some"),
                       Call("show", label, Res(showOk)),
                       Call("set_focus", label, "-")>>
    ELSE \E buildOk \in BOOLEAN, showOk \in BOOLEAN :
         /\ builds[label] < MaxBuilds
         /\ windows' = [windows EXCEPT
                          ![label] = show_and_focus("Visible", showOk)]
         /\ builds' = [builds EXCEPT ![label] = @ + 1]
         /\ calls' = (IF buildOk THEN <<>>
                      ELSE <<Call("get_webview_window", label, "None"),
                             Call("build", label, "Err")>>)
                     \o <<Call("get_webview_window", label, "None"),
                           Call("build", label, "Ok"),
                           Call("show", label, Res(showOk)),
                           Call("set_focus", label, "-")>>

\* open_or_focus_chat / _world / _zen / _settings: the four functions have
\* the same control flow and differ in the label and the window geometry.
\* The results of build() and show() are drawn where the call is made.
open_or_focus(label) ==
    IF get_webview_window(label)
    THEN \E showOk \in BOOLEAN :
         /\ windows' = [windows EXCEPT
                          ![label] = show_and_focus(windows[label], showOk)]
         /\ builds' = builds
         /\ calls' = <<Call("get_webview_window", label, "Some"),
                       Call("show", label, Res(showOk)),
                       Call("set_focus", label, "-")>>
    ELSE \E buildOk \in BOOLEAN :
         IF buildOk
         THEN \* build() registers the window, visible unless the builder
              \* says otherwise; then show + focus
              \E showOk \in BOOLEAN :
              /\ builds[label] < MaxBuilds
              /\ windows' = [windows EXCEPT
                               ![label] = show_and_focus("Visible", showOk)]
              /\ builds' = [builds EXCEPT ![label] = @ + 1]
              /\ calls' = <<Call("get_webview_window", label, "None"),
                            Call("build", label, "Ok"),
                            Call("show", label, Res(showOk)),
                            Call("set_focus", label, "-")>>
         ELSE /\ UNCHANGED winVars
              /\ calls' = <<Call("get_webview_window", label, "None"),
                            Call("build", label, "Err"),
                            Call("eprintln", label, "-")>>

open_or_focus_chat == open_or_focus(CHAT_WINDOW_LABEL)

open_or_focus_world == open_or_focus(WORLD_WINDOW_LABEL)

open_or_focus_zen == open_or_focus(ZEN_WINDOW_LABEL)

open_or_focus_settings == open_or_focus(SETTINGS_WINDOW_LABEL)

(* ------------------------------ handlers ------------------------------ *)

\* Mutant: the Zen arm also matches the Zen window's label.
on_menu_event_label(id) ==
    /\ ret' = <<"()">>
    /\ UNCHANGED <<trayVars, countVars>>
    /\ CASE id = "chat"     -> open_or_focus_chat /\ UNCHANGED running
         [] id = "world"    -> open_or_focus_world /\ UNCHANGED running
         [] id \in {"zen", ZEN_WINDOW_LABEL}
                            -> open_or_focus_zen /\ UNCHANGED running
         [] id = "settings" -> open_or_focus_settings /\ UNCHANGED running
         [] id = "quit"     -> /\ running' = FALSE
                               /\ calls' = <<Call("println", "Quitting", "-"),
                                             Call("exit", "0", "-")>>
                               /\ UNCHANGED winVars
         [] OTHER           -> /\ calls' = <<Call("eprintln", id, "-")>>
                               /\ UNCHANGED <<winVars, running>>

\* The on_menu_event closure: the match on event.id.
on_menu_event(id) ==
    /\ ret' = <<"()">>
    /\ UNCHANGED <<trayVars, countVars>>
    /\ CASE id = "chat"     -> open_or_focus_chat /\ UNCHANGED running
         [] id = "world"    -> open_or_focus_world /\ UNCHANGED running
         [] id = "zen"      -> open_or_focus_zen /\ UNCHANGED running
         [] id = "settings" -> open_or_focus_settings /\ UNCHANGED running
         [] id = "quit"     -> /\ running' = FALSE
                               /\ calls' = <<Call("println", "Quitting", "-"),
                                             Call("exit", "0", "-")>>
                               /\ UNCHANGED winVars
         [] OTHER           -> /\ calls' = <<Call("eprintln", id, "-")>>
                               /\ UNCHANGED <<winVars, running>>

MenuEvent ==
    /\ running
    /\ UNCHANGED mtVars
    /\ \E id \in MenuEventIds : on_menu_event(id)

\* Mutant: opening the chat from the tray also clears the badge.
on_tray_icon_event_clears(event) ==
    /\ ret' = <<"()">>
    /\ UNCHANGED <<countVars, running>>
    /\ IF event = <<"Click", "Left", "Up">>
       THEN /\ open_or_focus_chat
            /\ badge' = 0
            /\ trayIcon' = icon_for(0)
            /\ trayTooltip' = tooltip_for(0)
       ELSE calls' = <<>> /\ UNCHANGED <<winVars, trayVars>>

\* Mutant: the button state is not matched, so a left press opens too.
on_tray_icon_event_any_state(event) ==
    /\ ret' = <<"()">>
    /\ UNCHANGED <<trayVars, countVars, running>>
    /\ IF event[1] = "Click" /\ event[2] = "Left"
       THEN open_or_focus_chat
       ELSE calls' = <<>> /\ UNCHANGED winVars

\* The on_tray_icon_event closure: only a left-button release opens the chat.
on_tray_icon_event(event) ==
    /\ ret' = <<"()">>
    /\ UNCHANGED <<trayVars, countVars, running>>
    /\ IF event = <<"Click", "Left", "Up">>
       THEN open_or_focus_chat
       ELSE calls' = <<>> /\ UNCHANGED winVars

\* Tray events the platform delivers: clicks with a button and a button
\* state, double clicks with a button, pointer enter.
TrayIconEvents ==
    ({"Click"} \X {"Left", "Right", "Middle"} \X {"Up", "Down"})
      \cup ({"DoubleClick"} \X {"Left", "Right"} \X {"-"})
      \cup {<<"Enter", "-", "-">>}

TrayIconEvent ==
    /\ running
    /\ UNCHANGED mtVars
    /\ \E event \in TrayIconEvents : on_tray_icon_event(event)

\* The open_zen_window command.
open_zen_window ==
    /\ ret' = <<"()">>
    /\ UNCHANGED <<trayVars, countVars, running>>
    /\ open_or_focus_zen

OpenZenWindow ==
    /\ running
    /\ UNCHANGED mtVars
    /\ open_zen_window

\* Mutant: hiding the last visible window ends the process.
on_window_event_exit(label, event) ==
    /\ ret' = <<"()">>
    /\ UNCHANGED <<trayVars, countVars, builds>>
    /\ IF event = "CloseRequested" /\ label \in ManagedLabels
       THEN \E hideOk \in BOOLEAN :
            /\ windows' = [windows EXCEPT
                             ![label] = IF hideOk THEN "Hidden" ELSE @]
            /\ running' = (\E l \in ManagedLabels : windows'[l] = "Visible")
            /\ calls' = <<Call("prevent_close", label, "-"),
                          Call("hide", label, Res(hideOk))>>
       ELSE /\ calls' = <<>>
            /\ UNCHANGED <<windows, running>>

\* Mutant: prevent_close() is forgotten, so the toolkit destroys the window.
on_window_event_destroy(label, event) ==
    /\ ret' = <<"()">>
    /\ UNCHANGED <<trayVars, countVars, running, builds>>
    /\ IF event = "CloseRequested" /\ label \in ManagedLabels
       THEN /\ windows' = [windows EXCEPT ![label] = "Absent"]
            /\ calls' = <<Call("hide", label, "Ok")>>
       ELSE /\ calls' = <<>>
            /\ UNCHANGED windows

\* The on_window_event closure: a close request on one of the four labels
\* is prevented and the window hidden (the result of hide() is discarded).
on_window_event(label, event) ==
    /\ ret' = <<"()">>
    /\ UNCHANGED <<trayVars, countVars, running, builds>>
    /\ IF event = "CloseRequested" /\ label \in ManagedLabels
       THEN \E hideOk \in BOOLEAN :
            /\ windows' = [windows EXCEPT
                             ![label] = IF hideOk THEN "Hidden" ELSE @]
            /\ calls' = <<Call("prevent_close", label, "-"),
                          Call("hide", label, Res(hideOk))>>
       ELSE /\ calls' = <<>>
            /\ UNCHANGED windows

\* Window events reach the handler only from windows that exist.
WindowEvent ==
    /\ running
    /\ UNCHANGED mtVars
    /\ \E label \in ManagedLabels, event \in {"CloseRequested", "Focused"} :
          /\ windows[label] # "Absent"
          /\ on_window_event(label, event)

(* ----------------------------- tray badge ----------------------------- *)

\* The toolkit call of update_tray_badge that fails in one invocation, if any.
Faults == {"none", "resource_dir", "from_path", "set_icon", "set_tooltip"}

\* Mutant: the debounce test is missing.
debounce_never(count) == FALSE

\* Mutant: the debounce compares icons instead of counts.
debounce_bucket(count) == icon_for(badge) = icon_for(count)

\* The debounce test made under the lock: *current == count.
debounce(count) == badge = count

\* update_tray_badge after the lock is released: look the tray up, resolve
\* and load the icon, apply icon and tooltip; `?` returns at the first error.
render_badge(count, fault) ==
    LET lock == <<Call("lock", "BadgeCount", "Ok")>>
        tray == lock \o <<Call("tray_by_id", TRAY_ID,
                               IF TRAY_ID \in RegisteredTrays
                               THEN "Some" ELSE "None")>>
        dflt == tray \o <<Call("default_window_icon", "",
                               IF HasDefaultIcon THEN "Some" ELSE "None")>>
        rdir == tray \o <<Call("resource_dir", "",
                               Res(fault # "resource_dir"))>>
        path == rdir \o <<Call("from_path", icon_name(count),
                               Res(fault # "from_path"))>>
        icon == (IF count = 0 THEN dflt ELSE path)
                   \o <<Call("set_icon", icon_for(count), Res(fault # "set_icon"))>>
        tip  == icon \o <<Call("set_tooltip", "tooltip",
                               Res(fault # "set_tooltip"))>>
        Fail(msg, trace) ==
            /\ ret' = <<"Err", msg>>
            /\ calls' = trace
            /\ anyErr' = TRUE
    IN
    IF TRAY_ID \notin RegisteredTrays
    THEN /\ Fail("Tray icon not found", tray)
         /\ UNCHANGED <<trayIcon, trayTooltip, iconSwaps>>
    ELSE IF count = 0 /\ ~HasDefaultIcon
    THEN /\ Fail("No default icon", dflt)
         /\ UNCHANGED <<trayIcon, trayTooltip, iconSwaps>>
    ELSE IF count # 0 /\ fault = "resource_dir"
    THEN /\ Fail("resource_dir", rdir)
         /\ UNCHANGED <<trayIcon, trayTooltip, iconSwaps>>
    ELSE IF count # 0 /\ fault = "from_path"
    THEN /\ Fail("Failed to load badge icon", path)
         /\ UNCHANGED <<trayIcon, trayTooltip, iconSwaps>>
    ELSE IF fault = "set_icon"
    THEN /\ Fail("set_icon", icon)
         /\ UNCHANGED <<trayIcon, trayTooltip, iconSwaps>>
    ELSE /\ trayIcon' = icon_for(count)
         /\ iconSwaps' = iconSwaps + 1
         /\ IF fault = "set_tooltip"
            THEN /\ Fail("set_tooltip", tip)
                 /\ UNCHANGED trayTooltip
            ELSE /\ trayTooltip' = tooltip_for(count)
                 /\ ret' = <<"Ok">>
                 /\ calls' = tip
                 /\ UNCHANGED anyErr

\* Mutant: the count is recorded only once the tray has been updated.
update_tray_badge_late_assign(count, fault) ==
    /\ UNCHANGED <<winVars, running>>
    /\ badge # count => changedCalls < MaxChanged
    /\ changedCalls' = changedCalls + (IF badge # count THEN 1 ELSE 0)
    /\ IF debounce(count)
       THEN /\ ret' = <<"Ok">>
            /\ calls' = <<Call("lock", "BadgeCount", "Ok")>>
            /\ UNCHANGED <<trayVars, iconSwaps, anyErr>>
       ELSE /\ render_badge(count, fault)
            /\ badge' = IF ret' = <<"Ok">> THEN count ELSE badge

\* The update_tray_badge command.  The count is compared and assigned under
\* the lock; a call whose count differs from the recorded one is counted in
\* changedCalls whatever the code then does.  Nothing panics while the lock
\* is held, so the lock is never poisoned and lock() returns Ok.
update_tray_badge(count, fault) ==
    /\ UNCHANGED <<winVars, running>>
    /\ badge # count => changedCalls < MaxChanged
    /\ changedCalls' = changedCalls + (IF badge # count THEN 1 ELSE 0)
    /\ IF debounce(count)
       THEN /\ ret' = <<"Ok">>
            /\ calls' = <<Call("lock", "BadgeCount", "Ok")>>
            /\ UNCHANGED <<trayVars, iconSwaps, anyErr>>
       ELSE /\ badge' = count
            /\ render_badge(count, fault)

UpdateTrayBadge ==
    /\ running
    /\ UNCHANGED mtVars
    /\ \E count \in Counts, fault \in Faults : update_tray_badge(count, fault)

(* ------------------------------ event loop ---------------------------- *)

\* One event or command invocation is dispatched at a time, in arrival order.
Next ==
    \/ MenuEvent
    \/ TrayIconEvent
    \/ OpenZenWindow
    \/ WindowEvent
    \/ UpdateTrayBadge

Spec == Init /\ [][Next]_vars

(* --------------------------- threaded host ---------------------------- *)

\* update_tray_badge as a host with a thread per invocation would run it:
\* each invocation takes BadgeCount's mutex, compares, assigns and drops
\* the guard at the end of the block, then loads and applies the icon and
\* the tooltip without the mutex.  One step is one access to shared state;
\* what happens between two accesses is local to the invocation.

\* Mutant: the count is read and written without mutual exclusion.
lock_unguarded(t) == TRUE

\* badge_state.0.lock(): blocks while another invocation holds the guard.
lock(t) == holder = 0

\* The frontend invokes update_tray_badge with a count.
Invoke(t) ==
    /\ pc[t] = "idle"
    /\ \E count \in Counts : countArg' = [countArg EXCEPT ![t] = count]
    /\ pc' = [pc EXCEPT ![t] = "lock"]
    /\ UNCHANGED <<winVars, running, ret, calls, trayVars, countVars, holder>>

\* let mut current = badge_state.0.lock()
Acquire(t) ==
    /\ pc[t] = "lock"
    /\ lock(t)
    /\ holder' = t
    /\ pc' = [pc EXCEPT ![t] = "compare"]
    /\ UNCHANGED <<winVars, running, ret, calls, trayVars, countVars, countArg>>

\* if *current == count { return Ok(()) }: the return drops the guard.
Compare(t) ==
    /\ pc[t] = "compare"
    /\ IF debounce(countArg[t])
       THEN /\ pc' = [pc EXCEPT ![t] = "debounced"]
            /\ holder' = 0
            /\ UNCHANGED changedCalls
       ELSE /\ pc' = [pc EXCEPT ![t] = "assign"]
            /\ changedCalls' = changedCalls + 1
            /\ UNCHANGED holder
    /\ UNCHANGED <<winVars, running, ret, calls, trayVars, iconSwaps, anyErr,
                   countArg>>

\* Mutant: the count is not stored.
Assign_forgotten(t) ==
    /\ pc[t] = "assign"
    /\ holder' = 0
    /\ pc' = [pc EXCEPT ![t] = "load"]
    /\ UNCHANGED <<winVars, running, ret, calls, trayVars, countVars, countArg>>

\* *current = count; the block ends and the guard is dropped.
Assign(t) ==
    /\ pc[t] = "assign"
    /\ badge' = countArg[t]
    /\ holder' = 0
    /\ pc' = [pc EXCEPT ![t] = "load"]
    /\ UNCHANGED <<winVars, running, ret, calls, trayIcon, trayTooltip,
                   countVars, countArg>>

\* tray_by_id, then the default icon or resource_dir and Image::from_path:
\* no shared state is written; `?` returns Err if a call fails.
Load(t) ==
    /\ pc[t] = "load"
    /\ \E fault \in {"none", "resource_dir", "from_path"} :
          IF /\ TRAY_ID \in RegisteredTrays
             /\ IF countArg[t] = 0 THEN HasDefaultIcon ELSE fault = "none"
          THEN /\ pc' = [pc EXCEPT ![t] = "set_icon"]
               /\ UNCHANGED anyErr
          ELSE /\ pc' = [pc EXCEPT ![t] = "failed"]
               /\ anyErr' = TRUE
    /\ UNCHANGED <<winVars, running, ret, calls, trayVars, changedCalls,
                   iconSwaps, countArg, holder>>

\* tray.set_icon(Some(icon))?
SetIcon(t) ==
    /\ pc[t] = "set_icon"
    /\ \E ok \in BOOLEAN :
          IF ok
          THEN /\ trayIcon' = icon_for(countArg[t])
               /\ iconSwaps' = iconSwaps + 1
               /\ pc' = [pc EXCEPT ![t] = "set_tooltip"]
               /\ UNCHANGED anyErr
          ELSE /\ pc' = [pc EXCEPT ![t] = "failed"]
               /\ anyErr' = TRUE
               /\ UNCHANGED <<trayIcon, iconSwaps>>
    /\ UNCHANGED <<winVars, running, ret, calls, badge, trayTooltip,
                   changedCalls, countArg, holder>>

\* tray.set_tooltip(Some(..))?; Ok(())
SetTooltip(t) ==
    /\ pc[t] = "set_tooltip"
    /\ \E ok \in BOOLEAN :
          IF ok
          THEN /\ trayTooltip' = tooltip_for(countArg[t])
               /\ pc' = [pc EXCEPT ![t] = "done"]
               /\ UNCHANGED anyErr
          ELSE /\ pc' = [pc EXCEPT ![t] = "failed"]
               /\ anyErr' = TRUE
               /\ UNCHANGED trayTooltip
    /\ UNCHANGED <<winVars, running, ret, calls, badge, trayIcon,
                   changedCalls, iconSwaps, countArg, holder>>

\* The two invocations run on their own threads, interleaved at will.
NextMT ==
    \E t \in Invocations :
       \/ Invoke(t)
       \/ Acquire(t)
       \/ Compare(t)
       \/ Assign(t)
       \/ Load(t)
       \/ SetIcon(t)
       \/ SetTooltip(t)

SpecMT == Init /\ [][NextMT]_vars

(* ------------------------- reading the trace -------------------------- *)

\* The last handler was open_or_focus for label.
LastWasOpen(label) ==
    /\ Len(calls) > 0
    /\ calls[1][1] = "get_webview_window"
    /\ calls[1][2] = label

\* The last handler was open_or_focus for label and took the show path
\* (found the window, built nothing).
LastWasShowPath(label) ==
    /\ Len(calls) = 3
    /\ calls[1] = Call("get_webview_window", label, "Some")
    /\ calls[2][1] = "show"
    /\ calls[3][1] = "set_focus"

\* The last handler was the close handler acting on label.
LastWasClose(label) ==
    /\ Len(calls) = 2
    /\ calls[1] = Call("prevent_close", label, "-")
    /\ calls[2][1] = "hide"

\* The last handler called show() on label and show() returned Ok.
LastShowOk(label) ==
    \E i \in 1..Len(calls) : calls[i] = Call("show", label, "Ok")

(* ------------------------------- claims ------------------------------- *)

\* C1: at most one OS window instance exists per name in every state (a
\* window exists exactly when it was constructed once), and an openOrFocus
\* call that finds the window absent and constructs it, or finds it
\* visible, leaves it Visible: over a sequence of openOrFocus calls one
\* construction occurs and the window is Visible after each call.
C1_OneConstructionAndVisible ==
    /\ [](\A l \in ManagedLabels :
            /\ builds[l] <= 1
            /\ (windows[l] # "Absent") <=> (builds[l] = 1))
    /\ [][\A l \in ManagedLabels :
            (LastWasOpen(l)' /\ windows[l] # "Hidden" /\ windows'[l] # "Absent")
               => windows'[l] = "Visible"]_vars

\* C1 witness: a second openOrFocus(chat) found the window built by the
\* first and showed it; one construction has occurred.
C1_Witness ==
    /\ LastWasShowPath(CHAT_WINDOW_LABEL)
    /\ windows[CHAT_WINDOW_LABEL] = "Visible"
    /\ builds[CHAT_WINDOW_LABEL] = 1

\* C2: a managed window that exists is never Absent again and is never
\* constructed again, whatever event is dispatched; an openOrFocus on a
\* window that exists (hidden by a close or not) takes the show path.
C2_NeverAbsentAgain ==
    [][\A l \in ManagedLabels :
          windows[l] # "Absent" =>
             /\ windows'[l] # "Absent"
             /\ builds'[l] = builds[l]
             /\ LastWasOpen(l)' => LastWasShowPath(l)']_vars

\* C2 witness: the settings window was closed (hidden) and the openOrFocus
\* that followed took the show path on it without constructing; it is
\* still Hidden only because that show() failed.
C2_Witness ==
    /\ LastWasShowPath(SETTINGS_WINDOW_LABEL)
    /\ windows[SETTINGS_WINDOW_LABEL] = "Hidden"
    /\ builds[SETTINGS_WINDOW_LABEL] = 1

IconIdentity(icon) ==
    CASE icon = DEFAULT_ICON            -> "Default"
      [] icon = "tray-badge-1.png"      -> "Badge1"
      [] icon = "tray-badge-2.png"      -> "Badge2"
      [] icon = "tray-badge-3plus.png"  -> "Badge3Plus"

\* The bucket of a count: 0, 1, 2, and 3 or more.
Bucket(c) ==
    IF c = 0 THEN "Default"
    ELSE IF c = 1 THEN "Badge1"
    ELSE IF c = 2 THEN "Badge2"
    ELSE "Badge3Plus"

\* The base label of the tooltip.
BaseLabel == <<"CrewHub">>

IsDigit(piece) == \E d \in 0..9 : Digit(d) = piece

DigitValue(piece) == CHOOSE d \in 0..9 : Digit(d) = piece

\* The number a sequence of decimal digits denotes.
RECURSIVE DecimalValue(_)
DecimalValue(ds) ==
    IF ds = <<>> THEN 0
    ELSE DecimalValue(SubSeq(ds, 1, Len(ds) - 1)) * 10 + DigitValue(ds[Len(ds)])

\* The digits a tooltip contains, in order.
TooltipDigits(tip) == SelectSeq(tip, IsDigit)

\* The last handler was update_tray_badge (it alone takes the lock).
LastWasBadgeCall ==
    /\ Len(calls) > 0
    /\ calls[1] = Call("lock", "BadgeCount", "Ok")

\* The last handler was update_tray_badge and it went past the debounce.
LastWasBadgeUpdate ==
    /\ Len(calls) > 1
    /\ calls[1] = Call("lock", "BadgeCount", "Ok")

\* The last handler was update_tray_badge and it stopped at the debounce.
LastWasDebounced == calls = <<Call("lock", "BadgeCount", "Ok")>>

\* The fault hits a toolkit call that update_tray_badge(c) makes once it is
\* past the debounce (resource_dir and from_path are called for c > 0 only).
FaultHits(c, fault) ==
    /\ fault # "none"
    /\ c = 0 => fault \in {"set_icon", "set_tooltip"}

\* C4 as stated: in every reachable state the tray icon is the bucket of
\* the recorded count.
C4_IconIsBucketOfCount == IconIdentity(trayIcon) = Bucket(badge)

\* C5: a setBadge(c) call made while the recorded count is c returns Ok,
\* leaves the recorded count, the icon and the tooltip unchanged, and makes
\* no toolkit call after taking the lock (no tray lookup, no icon load).
C5_DebounceIsNoOp ==
    [][\A c \in Counts :
          (badge = c /\ LastWasBadgeCall'
             /\ \E fault \in Faults : update_tray_badge(c, fault)) =>
             /\ ret' = <<"Ok">>
             /\ UNCHANGED <<badge, trayIcon, trayTooltip, iconSwaps>>
             /\ LastWasDebounced']_vars

\* C5 witness: the first setBadge call of the process had count 0, the
\* initial value, and was debounced.
C5_Witness ==
    /\ LastWasDebounced
    /\ ret = <<"Ok">>
    /\ badge = 0
    /\ changedCalls = 0

\* C6: after a setBadge(c) call that went past the debounce and returned
\* Ok, the icon is the bucket of c, and the tooltip is the base label when
\* c = 0 and otherwise differs from it and names the decimal value c.
C6_BucketAndTooltipApplied ==
    (LastWasBadgeUpdate /\ ret = <<"Ok">>) =>
       /\ IconIdentity(trayIcon) = Bucket(badge)
       /\ badge = 0 => trayTooltip = BaseLabel
       /\ badge # 0 =>
            /\ trayTooltip # BaseLabel
            /\ TooltipDigits(trayTooltip) # <<>>
            /\ DecimalValue(TooltipDigits(trayTooltip)) = badge

\* C6 witness: setBadge(BigCount) succeeded and shows the 3-or-more icon.
C6_Witness ==
    /\ LastWasBadgeUpdate
    /\ ret = <<"Ok">>
    /\ badge = BigCount
    /\ trayIcon = "tray-badge-3plus.png"

\* C7: a setBadge(c) call with c different from the recorded count in which
\* a toolkit call fails returns Err and leaves the recorded count equal to
\* c; the setBadge call with that same count dispatched right after a
\* failed one returns Ok and changes neither icon nor tooltip.
C7_FailureKeepsCount ==
    [][LastWasBadgeCall' =>
          \A c \in Counts, fault \in Faults :
             /\ (badge # c /\ FaultHits(c, fault) /\ update_tray_badge(c, fault))
                   => (ret'[1] = "Err" /\ badge' = c)
             /\ (ret[1] = "Err" /\ c = badge /\ update_tray_badge(c, fault))
                   => (ret' = <<"Ok">> /\ UNCHANGED <<badge, trayIcon, trayTooltip>>)
      ]_vars

\* C7 witness: a setBadge call failed earlier, the icon is not the bucket
\* of the recorded count, and a later call with the recorded count was
\* debounced.
C7_Witness ==
    /\ anyErr
    /\ LastWasDebounced
    /\ ret = <<"Ok">>
    /\ IconIdentity(trayIcon) # Bucket(badge)

\* C8: as long as no setBadge call has returned Err, the number of icon
\* swaps applied to the tray equals the number of setBadge calls whose
\* count differed from the count recorded just before the call.
C8_SwapsEqualChangedCalls == ~anyErr => iconSwaps = changedCalls

\* C8 witness: two calls changed the count and two swaps were applied, the
\* last one back to the default icon (setBadge(2), setBadge(2), setBadge(0)).
C8_Witness ==
    /\ ~anyErr
    /\ changedCalls = 2
    /\ iconSwaps = 2
    /\ LastWasBadgeUpdate
    /\ badge = 0
    /\ trayIcon = DEFAULT_ICON

\* C9: the only step that ends the process is the "quit" menu event.
C9_OnlyQuitTerminates ==
    [][(running /\ ~running') => on_menu_event("quit")]_vars

\* C9 witness: the process has exited through Quit while a window that a
\* close-request had hidden still existed.
C9_Witness ==
    /\ ~running
    /\ calls = <<Call("println", "Quitting", "-"), Call("exit", "0", "-")>>
    /\ \E l \in ManagedLabels : windows[l] = "Hidden"

\* C10: a menu event whose identifier is none of the five menu items leaves
\* every window, the tray and the running status unchanged.
C10_UnknownMenuIdIgnored ==
    [][\A id \in MenuEventIds \ MenuItemIds :
          on_menu_event(id) =>
             UNCHANGED <<windows, builds, badge, trayIcon, trayTooltip, running>>
      ]_vars

\* C10 witness: the menu identifier "zen-mode" (the Zen window's label) was
\* dispatched and the Zen window is still Absent, the process running.
C10_Witness ==
    /\ calls = <<Call("eprintln", "zen-mode", "-")>>
    /\ windows[ZEN_WINDOW_LABEL] = "Absent"
    /\ running

\* The last handler was open_or_focus for label, found no window, and its
\* build() failed.
LastBuildFailed(label) ==
    /\ LastWasOpen(label)
    /\ Len(calls) >= 2
    /\ calls[2] = Call("build", label, "Err")

\* The last handler was open_or_focus for label, found no window, and its
\* build() succeeded.
LastBuildOk(label) ==
    /\ LastWasOpen(label)
    /\ Len(calls) >= 2
    /\ calls[2] = Call("build", label, "Ok")

\* C11: an openOrFocus that finds no window and whose construction fails
\* leaves every window as it was (the one asked for Absent), leaves the
\* tray and the running status unchanged, and makes one build() call only
\* (it logs, and does not retry); any openOrFocus on an absent window
\* attempts construction, a failed one before it or not; a construction
\* that succeeds leaves the window Visible and registered.
C11_BuildFailureIsNoOp ==
    [][\A l \in ManagedLabels :
          /\ LastBuildFailed(l)' =>
                /\ windows[l] = "Absent"
                /\ UNCHANGED <<windows, builds, badge, trayIcon, trayTooltip,
                               running>>
                /\ running
                /\ calls' = <<Call("get_webview_window", l, "None"),
                              Call("build", l, "Err"),
                              Call("eprintln", l, "-")>>
          /\ (windows[l] = "Absent" /\ LastWasOpen(l)') =>
                (LastBuildFailed(l)' \/ LastBuildOk(l)')
          /\ LastBuildOk(l)' =>
                /\ windows'[l] = "Visible"
                /\ builds'[l] = builds[l] + 1
                /\ get_webview_window(l)']_vars

\* C11 witness: construction of the world window failed; it is Absent and
\* the process runs.
C11_Witness ==
    /\ LastBuildFailed(WORLD_WINDOW_LABEL)
    /\ windows[WORLD_WINDOW_LABEL] = "Absent"
    /\ running

\* C14: every change of a managed window's lifecycle state is Absent to
\* Visible made by an openOrFocus that constructed it, Visible to Hidden
\* made by a close-request on it, or Hidden to Visible made by the show
\* path of openOrFocus; a close-request on a Hidden window leaves it Hidden
\* and an openOrFocus on a Visible window leaves it Visible.
C14_ThreeTransitions ==
    [][\A l \in ManagedLabels :
          /\ windows'[l] # windows[l] =>
                \/ /\ windows[l] = "Absent" /\ windows'[l] = "Visible"
                   /\ LastBuildOk(l)'
                \/ /\ windows[l] = "Visible" /\ windows'[l] = "Hidden"
                   /\ LastWasClose(l)'
                \/ /\ windows[l] = "Hidden" /\ windows'[l] = "Visible"
                   /\ LastWasShowPath(l)'
          /\ (LastWasClose(l)' /\ windows[l] = "Hidden") =>
                windows'[l] = "Hidden"
          /\ (LastWasOpen(l)' /\ windows[l] = "Visible") =>
                windows'[l] = "Visible"]_vars

\* C14 witness: a close-request hid the zen-mode window while the chat
\* window, opened by the show path, is Visible.
C14_Witness ==
    /\ LastWasClose(ZEN_WINDOW_LABEL)
    /\ windows[ZEN_WINDOW_LABEL] = "Hidden"
    /\ windows[CHAT_WINDOW_LABEL] = "Visible"
    /\ builds[CHAT_WINDOW_LABEL] = 1

\* The last handler was open_or_focus for label and it held a window,
\* found or just built.
LastOpenHadWindow(label) ==
    LastWasShowPath(label) \/ LastBuildOk(label)

\* C15: an openOrFocus that finds the window or constructs it issues one
\* show() to that window and then one set_focus(), as its last two
\* requests and in that order, also when show() returns Err; it logs
\* nothing, returns the unit value and leaves the process running.
C15_ShowThenFocus ==
    [][\A l \in ManagedLabels :
          LastOpenHadWindow(l)' =>
             LET n == Len(calls') IN
             /\ n >= 3
             /\ calls'[n - 1][1] = "show" /\ calls'[n - 1][2] = l
             /\ calls'[n] = Call("set_focus", l, "-")
             /\ \A i \in 1..n :
                   /\ calls'[i][1] = "show" => i = n - 1
                   /\ calls'[i][1] = "set_focus" => i = n
                   /\ calls'[i][1] # "eprintln"
             /\ ret' = <<"()">>
             /\ UNCHANGED <<anyErr, running>>]_vars

\* C15 witness: openOrFocus found the settings window, its show() failed
\* and set_focus() was issued after it.
C15_Witness ==
    /\ LastWasShowPath(SETTINGS_WINDOW_LABEL)
    /\ calls[2] = Call("show", SETTINGS_WINDOW_LABEL, "Err")
    /\ calls[3] = Call("set_focus", SETTINGS_WINDOW_LABEL, "-")

\* The tray event that on_tray_icon_event matches: left button released.
LeftClickUp == <<"Click", "Left", "Up">>

\* C16: from every reachable state the successors of a tray left-click
\* (left button, released) are the successors of the "chat" menu action,
\* and the successors of the open_zen_window command are the successors of
\* the "zen" menu action; a step that changes a window, a construction
\* count or the tray state is the step of no other tray mouse event.
C16_TrayClickIsChatAction ==
    [][/\ on_tray_icon_event(LeftClickUp) <=> on_menu_event("chat")
       /\ open_zen_window <=> on_menu_event("zen")
       /\ \/ UNCHANGED <<windows, builds, badge, trayIcon, trayTooltip>>
          \/ \A e \in TrayIconEvents \ {LeftClickUp} :
                ~on_tray_icon_event(e)
      ]_vars

\* C16 witness: the chat window was closed and an openOrFocus of it, which a
\* tray left-click and the "chat" menu item both dispatch, showed it again,
\* the zen-mode window being Visible too.
C16_Witness ==
    /\ LastWasShowPath(CHAT_WINDOW_LABEL)
    /\ LastShowOk(CHAT_WINDOW_LABEL)
    /\ windows[CHAT_WINDOW_LABEL] = "Visible"
    /\ windows[ZEN_WINDOW_LABEL] = "Visible"
    /\ windows[WORLD_WINDOW_LABEL] = "Hidden"

\* C17 as stated: in every state the tooltip is the base label exactly when
\* the icon is Default, and otherwise the tooltip names a count whose bucket
\* is the displayed icon, also after a setBadge call whose set_icon
\* succeeded and whose set_tooltip failed.
C17_TooltipAgreesWithIcon ==
    /\ trayTooltip = BaseLabel <=> IconIdentity(trayIcon) = "Default"
    /\ trayTooltip # BaseLabel =>
          /\ TooltipDigits(trayTooltip) # <<>>
          /\ Bucket(DecimalValue(TooltipDigits(trayTooltip)))
                = IconIdentity(trayIcon)

\* C18: an openOrFocus of a window and a close-request on a window leave
\* the recorded count, the tray icon and the tooltip unchanged and leave
\* every other window's lifecycle state unchanged; a setBadge call, whether
\* it succeeds, is debounced or fails, leaves every window's lifecycle
\* state and construction count unchanged.
C18_WindowsAndBadgeDisjoint ==
    [][/\ \A l \in ManagedLabels :
             (LastWasOpen(l)' \/ LastWasClose(l)') =>
                /\ UNCHANGED <<badge, trayIcon, trayTooltip>>
                /\ \A m \in ManagedLabels \ {l} :
                      /\ windows'[m] = windows[m]
                      /\ builds'[m] = builds[m]
       /\ LastWasBadgeCall' => UNCHANGED <<windows, builds>>]_vars

\* C18 witness: the world window was opened while the tray showed the
\* badge of count 2 and the chat window was Hidden; both are as they were.
C18_Witness ==
    /\ LastWasOpen(WORLD_WINDOW_LABEL)
    /\ windows[WORLD_WINDOW_LABEL] = "Visible"
    /\ windows[CHAT_WINDOW_LABEL] = "Hidden"
    /\ badge = 2
    /\ trayIcon = "tray-badge-2.png"
    /\ trayTooltip # BaseLabel

\* The invocation went past the debounce (it found a count other than its
\* own under the lock).
PastDebounce(t) ==
    pc[t] \in {"assign", "load", "set_icon", "set_tooltip", "done", "failed"}

\* The invocation has made its comparison under the lock.
Compared(t) == PastDebounce(t) \/ pc[t] = "debounced"

\* The invocation returned Ok(()).
ReturnedOk(t) == pc[t] \in {"done", "debounced"}

\* C12: when the two concurrent setBadge calls carry the same count, never
\* both go past the debounce; when that count differs from the count
\* recorded before them (0, the initial one) and both have compared,
\* exactly one went past the debounce, the other returned Ok without
\* touching icon or tooltip, and the icon was swapped at most once.
C12_OneOfTwoUpdates ==
    (pc[1] # "idle" /\ pc[2] # "idle" /\ countArg[1] = countArg[2]) =>
       /\ ~(PastDebounce(1) /\ PastDebounce(2))
       /\ (countArg[1] # 0 /\ Compared(1) /\ Compared(2)) =>
             /\ \E t \in Invocations :
                   /\ PastDebounce(t)
                   /\ \A u \in Invocations \ {t} : pc[u] = "debounced"
             /\ changedCalls = 1
             /\ iconSwaps <= 1

\* C12 witness: both invocations carried count 2; the second applied icon
\* and tooltip, the first was debounced.
C12_Witness ==
    /\ countArg[1] = 2 /\ countArg[2] = 2
    /\ pc[1] = "debounced"
    /\ pc[2] = "done"
    /\ trayIcon = "tray-badge-2.png"
    /\ iconSwaps = 1

\* C13 as stated: when two setBadge calls with different counts have both
\* returned Ok, the tray icon and the tooltip correspond to the recorded
\* count.
C13_FinalTrayMatchesCount ==
    (ReturnedOk(1) /\ ReturnedOk(2) /\ countArg[1] # countArg[2]) =>
       /\ IconIdentity(trayIcon) = Bucket(badge)
       /\ badge = 0 => trayTooltip = BaseLabel
       /\ badge # 0 =>
            /\ trayTooltip # BaseLabel
            /\ DecimalValue(TooltipDigits(trayTooltip)) = badge

\* C13 amended: when two setBadge calls with different counts have both
\* returned Ok, the recorded count is the count of one of them, and the
\* icon and the tooltip are each those of one of them, not necessarily of
\* the same one nor of the one whose count is recorded.
C13_FinalTrayIsOfOneCall ==
    (ReturnedOk(1) /\ ReturnedOk(2) /\ countArg[1] # countArg[2]) =>
       /\ \E t \in Invocations : badge = countArg[t]
       /\ \E t \in Invocations : trayIcon = icon_for(countArg[t])
       /\ \E t \in Invocations : trayTooltip = tooltip_for(countArg[t])

\* C13 witness: the calls carried 1 and 2 and both returned Ok; the count
\* recorded is 2, the icon is the one for 1 and the tooltip the one for 2.
C13_Witness ==
    /\ countArg[1] = 1 /\ countArg[2] = 2
    /\ pc[1] = "done" /\ pc[2] = "done"
    /\ badge = 2
    /\ trayIcon = "tray-badge-1.png"
    /\ trayTooltip = tooltip_for(2)

====
